---- MODULE Spec2Model ----
(***************************************************************************)
(* The RAG notebook langchain/jupyter/LCEL/rag.ipynb as a state machine.   *)
(* The notebook is a linear sequence of cells: load a web page, split it   *)
(* into chunks, embed and store the chunks, retrieve for a query, and run  *)
(* one of two LCEL chains (hub prompt / custom prompt) on a question.      *)
(*                                                                         *)
(* Text is a sequence of one-character strings.  The notebook's parameters *)
(* (chunk_size=1000, chunk_overlap=200, k=6) are scaled down: the model    *)
(* draws them in Init from small ranges, so that documents of a few        *)
(* characters already produce several chunks and more chunks than k.       *)
(* The library routines the cells call are modelled by the algorithm the   *)
(* called routine runs; each is mapped to the cell that calls it.          *)
(***************************************************************************)
EXTENDS Integers, Sequences, FiniteSets, TLC

\* ------------------------------------------------------------------ bounds

MaxDocLen == 6
MaxChunkSize == 4
MaxOverlap == 2
MaxK == 2
MaxCalls == 3
MaxDocs == 3

\* ------------------------------------------------------------ text helpers

NL == "\n"
SP == " "
Alphabet == {"a", "b", SP, NL}
Whitespace == {SP, NL}

Min(a, b) == IF a < b THEN a ELSE b
Max(a, b) == IF a > b THEN a ELSE b

\* Python slice text[i:j], 0-based, clamped
Slice(text, i, j) ==
    LET lo == Max(0, i)
        hi == Min(Len(text), j)
    IN IF hi <= lo THEN << >> ELSE SubSeq(text, lo + 1, hi)

\* str.find(pat, from): least 0-based index >= from where pat occurs, else -1
Find(text, pat, from) ==
    LET hits == {i \in from..(Len(text) - Len(pat)) :
                    i >= 0 /\ Slice(text, i, i + Len(pat)) = pat}
    IN IF hits = {} THEN -1
       ELSE CHOOSE i \in hits : \A j \in hits : i <= j

\* str.strip(): drop leading and trailing whitespace
RECURSIVE LStrip(_)
LStrip(text) ==
    IF text # << >> /\ Head(text) \in Whitespace THEN LStrip(Tail(text)) ELSE text

RECURSIVE RStrip(_)
RStrip(text) ==
    IF text # << >> /\ text[Len(text)] \in Whitespace
    THEN RStrip(SubSeq(text, 1, Len(text) - 1))
    ELSE text

Strip(text) == RStrip(LStrip(text))

\* "".join(pieces) / separator.join(pieces)
RECURSIVE Join(_, _)
Join(pieces, separator) ==
    IF pieces = << >> THEN << >>
    ELSE IF Len(pieces) = 1 THEN pieces[1]
    ELSE pieces[1] \o separator \o Join(Tail(pieces), separator)

\* all texts over Alphabet of length <= n
RECURSIVE TextsUpTo(_)
TextsUpTo(n) ==
    IF n = 0 THEN {<< >>}
    ELSE LET shorter == TextsUpTo(n - 1)
         IN shorter \cup {Append(t, c) : t \in {s \in shorter : Len(s) = n - 1}, c \in Alphabet}

\* ------------------------------------------------- RecursiveCharacterTextSplitter

\* the splitter's default separator priority list: paragraph, line, word, character
Separators == << <<NL, NL>>, <<NL>>, <<SP>>, << >> >>

\* re.split(separator, text) for a literal non-empty separator
RECURSIVE ReSplit(_, _)
ReSplit(text, separator) ==
    LET i == Find(text, separator, 0)
    IN IF i = -1 THEN <<text>>
       ELSE <<Slice(text, 0, i)>> \o ReSplit(Slice(text, i + Len(separator), Len(text)), separator)

\* _split_text_with_regex with keep_separator=True: the separator stays at the
\* start of the piece that follows it; empty pieces are dropped
split_text_with_regex(text, separator) ==
    LET raw == IF separator = << >>
               THEN [i \in 1..Len(text) |-> <<text[i]>>]
               ELSE LET parts == ReSplit(text, separator)
                    IN [i \in 1..Len(parts) |->
                           IF i = 1 THEN parts[1] ELSE separator \o parts[i]]
    IN SelectSeq(raw, LAMBDA s : s # << >>)

\* _join_docs: join, strip, and drop an empty result (None is << >> here)
join_docs(current_doc, separator) == Strip(Join(current_doc, separator))

\* mutant of PopOverlap: the overlap cap (total > chunk_overlap) is forgotten
RECURSIVE PopOverlapNoCap(_, _, _, _, _, _)
PopOverlapNoCap(current_doc, total, len, separator_len, size, overlap) ==
    IF total + len + (IF Len(current_doc) > 0 THEN separator_len ELSE 0) > size
       /\ total > 0
    THEN PopOverlapNoCap(Tail(current_doc),
                         total - (Len(current_doc[1])
                                  + (IF Len(current_doc) > 1 THEN separator_len ELSE 0)),
                         len, separator_len, size, overlap)
    ELSE [current_doc |-> current_doc, total |-> total]

\* the inner while loop of _merge_splits: pop pieces from the front of
\* current_doc until the kept overlap fits
RECURSIVE PopOverlap(_, _, _, _, _, _)
PopOverlap(current_doc, total, len, separator_len, size, overlap) ==
    IF total > overlap
       \/ (total + len + (IF Len(current_doc) > 0 THEN separator_len ELSE 0) > size
           /\ total > 0)
    THEN PopOverlap(Tail(current_doc),
                    total - (Len(current_doc[1])
                             + (IF Len(current_doc) > 1 THEN separator_len ELSE 0)),
                    len, separator_len, size, overlap)
    ELSE [current_doc |-> current_doc, total |-> total]

\* the for loop of _merge_splits, one piece d = splits[1] per step
RECURSIVE MergeLoop(_, _, _, _, _, _, _)
MergeLoop(splits, separator, docs, current_doc, total, size, overlap) ==
    IF splits = << >>
    THEN LET doc == join_docs(current_doc, separator)
         IN IF doc # << >> THEN Append(docs, doc) ELSE docs
    ELSE
      LET d == Head(splits)
          len == Len(d)
          separator_len == Len(separator)
          full == total + len + (IF Len(current_doc) > 0 THEN separator_len ELSE 0) > size
          flush == full /\ Len(current_doc) > 0
          doc == join_docs(current_doc, separator)
          docs1 == IF flush /\ doc # << >> THEN Append(docs, doc) ELSE docs
          kept == IF flush
                  THEN PopOverlap(current_doc, total, len, separator_len, size, overlap)
                  ELSE [current_doc |-> current_doc, total |-> total]
          current1 == Append(kept.current_doc, d)
          total1 == kept.total + len + (IF Len(current1) > 1 THEN separator_len ELSE 0)
      IN MergeLoop(Tail(splits), separator, docs1, current1, total1, size, overlap)

merge_splits(splits, separator, size, overlap) ==
    MergeLoop(splits, separator, << >>, << >>, 0, size, overlap)

\* index of the first separator of the list (from position si) that is "" or
\* occurs in text; the last one when none does
RECURSIVE PickSeparator(_, _)
PickSeparator(text, si) ==
    IF si >= Len(Separators) THEN Len(Separators)
    ELSE IF Separators[si] = << >> THEN si
    ELSE IF Find(text, Separators[si], 0) # -1 THEN si
    ELSE PickSeparator(text, si + 1)

\* _split_text(text, separators[si:]): split on the chosen separator, merge the
\* pieces shorter than chunk_size, recurse into the others with the later separators
RECURSIVE split_text_from(_, _, _, _)
RECURSIVE SplitLoop(_, _, _, _, _, _)
SplitLoop(splits, good_splits, final_chunks, next_si, size, overlap) ==
    IF splits = << >>
    THEN IF good_splits # << >>
         THEN final_chunks \o merge_splits(good_splits, << >>, size, overlap)
         ELSE final_chunks
    ELSE
      LET s == Head(splits)
      IN IF Len(s) < size
         THEN SplitLoop(Tail(splits), Append(good_splits, s), final_chunks,
                        next_si, size, overlap)
         ELSE
           LET merged == IF good_splits # << >>
                         THEN final_chunks \o merge_splits(good_splits, << >>, size, overlap)
                         ELSE final_chunks
               other == IF next_si = 0 THEN <<s>>
                        ELSE split_text_from(s, next_si, size, overlap)
           IN SplitLoop(Tail(splits), << >>, merged \o other, next_si, size, overlap)

split_text_from(text, si, size, overlap) ==
    LET pick == PickSeparator(text, si)
        separator == Separators[pick]
        \* new_separators is empty (0) when "" was chosen or nothing follows
        next_si == IF separator = << >> \/ pick = Len(Separators) THEN 0 ELSE pick + 1
    IN SplitLoop(split_text_with_regex(text, separator), << >>, << >>, next_si, size, overlap)

split_text(text, size, overlap) == split_text_from(text, 1, size, overlap)

\* mutant of SearchOffset: the search starts one character too early
SearchOffsetEarly(index, previous_chunk_len, overlap) ==
    index + previous_chunk_len - overlap - 1

\* mutant of SearchOffset: the overlap is not subtracted, the search starts at
\* the previous chunk's end
SearchOffsetNoOverlap(index, previous_chunk_len, overlap) == index + previous_chunk_len

\* the start offset create_documents searches from for the next chunk
SearchOffset(index, previous_chunk_len, overlap) == index + previous_chunk_len - overlap

\* create_documents for one text with add_start_index=True
RECURSIVE CreateLoop(_, _, _, _, _, _)
CreateLoop(chunks, text, metadata, index, previous_chunk_len, overlap) ==
    IF chunks = << >> THEN << >>
    ELSE LET chunk == Head(chunks)
             offset == SearchOffset(index, previous_chunk_len, overlap)
             found == Find(text, chunk, Max(0, offset))
         IN <<[page_content |-> chunk,
               metadata |-> [source |-> metadata.source, start_index |-> found]]>>
            \o CreateLoop(Tail(chunks), text, metadata, found, Len(chunk), overlap)

\* split_documents on the loaded document list
RECURSIVE split_documents(_, _, _)
split_documents(documents, size, overlap) ==
    IF documents = << >> THEN << >>
    ELSE LET doc == Head(documents)
         IN CreateLoop(split_text(doc.page_content, size, overlap),
                       doc.page_content, doc.metadata, 0, 0, overlap)
            \o split_documents(Tail(documents), size, overlap)

\* ------------------------------------------------- embedding + vector store

\* DashScopeEmbeddings.embed: text -> vector.  The remote model is opaque; the
\* model uses a fixed deterministic embedding, the counts of "a" and of "b"
Count(text, c) == Cardinality({i \in 1..Len(text) : text[i] = c})

Embed(text) == <<Count(text, "a"), Count(text, "b")>>

\* Chroma's default distance: squared L2
Distance(u, v) == (u[1] - v[1]) * (u[1] - v[1]) + (u[2] - v[2]) * (u[2] - v[2])

\* mutant of from_documents: a chunk whose text is already in the collection is
\* not inserted again
RECURSIVE from_documents_dedup(_)
from_documents_dedup(documents) ==
    IF documents = << >> THEN << >>
    ELSE LET n == Len(documents)
             d == documents[n]
             before == from_documents_dedup(SubSeq(documents, 1, n - 1))
         IN IF \E i \in 1..(n - 1) : documents[i].page_content = d.page_content
            THEN before
            ELSE Append(before, [page_content |-> d.page_content,
                                 metadata |-> d.metadata,
                                 embedding |-> Embed(d.page_content)])

\* Chroma.from_documents(documents, embedding): one entry per document, in order
from_documents(documents) ==
    [i \in 1..Len(documents) |->
        [page_content |-> documents[i].page_content,
         metadata |-> documents[i].metadata,
         embedding |-> Embed(documents[i].page_content)]]

\* ------------------------------------------------------------------ retriever

\* mutant of Candidates: the search looks at the first two entries only
CandidatesPartial(store) == 1..Min(2, Len(store))

\* the entries of the index the search considers
Candidates(store) == 1..Len(store)

\* the candidates ordered by distance to the query embedding, nearest first
\* (ties in insertion order: a deterministic index)
RECURSIVE RankFrom(_, _, _)
RankFrom(store, qe, left) ==
    IF left = {} THEN << >>
    ELSE LET best == CHOOSE i \in left :
                        \A j \in left :
                            \/ Distance(qe, store[i].embedding) < Distance(qe, store[j].embedding)
                            \/ /\ Distance(qe, store[i].embedding) = Distance(qe, store[j].embedding)
                               /\ i <= j
         IN <<best>> \o RankFrom(store, qe, left \ {best})

Rank(store, qe) == RankFrom(store, qe, Candidates(store))

\* mutant of TopK: one result too few
TopKOffByOne(ranked, n_results) == SubSeq(ranked, 1, Min(n_results, Len(ranked)) - 1)

\* n_results is cut to the number of elements in the index
TopK(ranked, n_results) == SubSeq(ranked, 1, Min(n_results, Len(ranked)))

\* retriever.invoke(query) with search_type="similarity", search_kwargs={"k": k}:
\* the Documents (text + metadata, no embedding) of the k nearest entries
similarity_search(store, query, n_results) ==
    LET hits == TopK(Rank(store, Embed(query)), n_results)
    IN [i \in 1..Len(hits) |->
           [page_content |-> store[hits[i]].page_content,
            metadata |-> store[hits[i]].metadata]]

\* ------------------------------------------------------------ prompt + chain

\* mutant of format_docs: the documents are joined by a single newline
RECURSIVE format_docs_one_newline(_)
format_docs_one_newline(documents) ==
    IF documents = << >> THEN << >>
    ELSE IF Len(documents) = 1 THEN documents[1].page_content
    ELSE documents[1].page_content \o <<NL>> \o format_docs_one_newline(Tail(documents))

\* def format_docs(docs): "\n\n".join(doc.page_content for doc in docs)
RECURSIVE format_docs(_)
format_docs(documents) ==
    IF documents = << >> THEN << >>
    ELSE IF Len(documents) = 1 THEN documents[1].page_content
    ELSE documents[1].page_content \o <<NL, NL>> \o format_docs(Tail(documents))

ContextSlot == "{context}"
QuestionSlot == "{question}"
ClosingPhrase == "thanks for asking!"
ClosingInstruction == "Always say \"thanks for asking!\" at the end of the answer."

\* hub.pull("rlm/rag-prompt"): the template text, cut at its two slots
HubTemplate ==
    <<"You are an assistant for question-answering tasks. [...] keep the answer concise.",
      "Question: ", QuestionSlot, " \nContext: ", ContextSlot, " \nAnswer:">>

\* template = """...""" of the custom prompt cell
CustomTemplate ==
    <<"Use the following pieces of context to answer the question at the end. [...]",
      ClosingInstruction, "\n\n", ContextSlot, "\n\nQuestion: ", QuestionSlot,
      "\n\nHelpful Answer:">>

\* mutant of Template: custom_rag_chain is piped into the hub prompt as well
TemplateHubOnly(chain) == HubTemplate

\* the prompt of each chain: rag_chain pipes into prompt, custom_rag_chain into
\* custom_rag_prompt
Template(chain) == IF chain = "custom" THEN CustomTemplate ELSE HubTemplate

\* mutant of FormatPrompt: only the question slot is filled
RECURSIVE FormatPromptQuestionOnly(_, _, _)
FormatPromptQuestionOnly(template, context, question) ==
    IF template = << >> THEN << >>
    ELSE (IF Head(template) = QuestionSlot THEN question ELSE <<Head(template)>>)
         \o FormatPromptQuestionOnly(Tail(template), context, question)

\* mutant of FormatPrompt: the two values go into each other's slot
RECURSIVE FormatPromptSwapped(_, _, _)
FormatPromptSwapped(template, context, question) ==
    IF template = << >> THEN << >>
    ELSE (IF Head(template) = ContextSlot THEN question
          ELSE IF Head(template) = QuestionSlot THEN context
          ELSE <<Head(template)>>)
         \o FormatPromptSwapped(Tail(template), context, question)

\* PromptTemplate.format: one pass over the template, each slot replaced by its
\* value; the values themselves are not scanned again
RECURSIVE FormatPrompt(_, _, _)
FormatPrompt(template, context, question) ==
    IF template = << >> THEN << >>
    ELSE (IF Head(template) = ContextSlot THEN context
          ELSE IF Head(template) = QuestionSlot THEN question
          ELSE <<Head(template)>>)
         \o FormatPrompt(Tail(template), context, question)

\* the chat model: an opaque remote service.  Its reply is the body it chooses;
\* a model that complies with the prompt's closing instruction ends with the phrase
Bodies == {<< >>, <<"answer">>, <<ContextSlot>>}

HasToken(text, tok) == \E i \in 1..Len(text) : text[i] = tok

llm(prompt_text, body, complies) ==
    [type |-> "ai",
     content |-> IF complies /\ HasToken(prompt_text, ClosingInstruction)
                 THEN body \o <<ClosingPhrase>>
                 ELSE body]

\* StrOutputParser: the message's content
StrOutputParser(message) == message.content

\* mutant of StreamChunks: the final message chunk is lost
StreamChunksDropLast(message) ==
    [i \in 1..(Len(message.content) - 1) |-> [type |-> "ai", content |-> <<message.content[i]>>]]

\* llm.stream: the content as message chunks, one token each
StreamChunks(message) ==
    [i \in 1..Len(message.content) |-> [type |-> "ai", content |-> <<message.content[i]>>]]

\* -------------------------------------------------------------------- state

VARIABLES
    pc,             \* position of the notebook's execution
    chunk_size, chunk_overlap, k,   \* splitter and retriever parameters
    docs,           \* loader output
    all_splits,     \* splitter output
    vector_store,   \* the Chroma collection's entries, in insertion order
    prompt,         \* the hub prompt, NoPrompt until pulled
    run,            \* the current / last retrieval or chain invocation
    log,            \* every retrieval served so far, in order (at most MaxCalls)
    error,          \* the exception at the top level, NoError if none
    raised,         \* the exception a collaborator raised, NoError if none
    stage_log       \* stages completed in the current pipeline run, in order

vars == <<pc, chunk_size, chunk_overlap, k, docs, all_splits, vector_store,
          prompt, run, log, error, raised, stage_log>>

Url == "url"
NoPrompt == << >>
NoError == [stage |-> "none", exc |-> "none"]
NoRun == [chain |-> "none", mode |-> "none", question |-> << >>, retrieved |-> << >>,
          context |-> << >>, prompt_text |-> << >>, complied |-> FALSE,
          content |-> << >>, pending |-> << >>, delivered |-> << >>,
          answer |-> << >>, done |-> FALSE]

Queries == {<<"a">>, <<"b", "b", ContextSlot>>}
Exceptions == {"network", "credentials"}
\* the web pages the loader may return: short texts of one to five chunks
Pages ==
    {<<"a", SP, "b">>,
     <<"a", "b", SP, "b", "b">>,
     <<"a", SP, "b", SP, "a", "b">>,
     <<"b", "b", "a", "a", "b">>,
     <<"a", NL, NL, "b", SP, "a", "a">>}

\* the (chunk_size, chunk_overlap) pairs the splitter's constructor accepts
\* (chunk_overlap <= chunk_size), within the bounds
Splitters ==
    {c \in (2..MaxChunkSize) \X (0..MaxOverlap) : c[2] < c[1]}

\* the pairs the whole pipeline is run with
PipelineSplitters == {<<2, 1>>, <<4, 1>>}

InitWith(splitters) ==
    /\ pc = "start"
    /\ \E c \in splitters : chunk_size = c[1] /\ chunk_overlap = c[2]
    /\ k \in 1..MaxK
    /\ docs = << >>
    /\ all_splits = << >>
    /\ vector_store = << >>
    /\ prompt = NoPrompt
    /\ run = NoRun
    /\ log = << >>
    /\ error = NoError
    /\ raised = NoError
    /\ stage_log = << >>

Init == InitWith(PipelineSplitters)

\* docs = loader.load(): one web path, one Document
LoadFrom(pages) ==
    /\ pc = "start"
    /\ \E text \in pages :
          docs' = <<[page_content |-> text, metadata |-> [source |-> Url]]>>
    /\ pc' = "loaded"
    /\ stage_log' = Append(stage_log, "load")
    /\ UNCHANGED <<chunk_size, chunk_overlap, k, all_splits, vector_store, prompt,
                   run, log, error, raised>>

Load == LoadFrom(Pages)

\* all_splits = text_splitter.split_documents(docs)
Split ==
    /\ pc = "loaded"
    /\ all_splits' = split_documents(docs, chunk_size, chunk_overlap)
    /\ pc' = "split"
    /\ stage_log' = Append(stage_log, "split")
    /\ UNCHANGED <<chunk_size, chunk_overlap, k, docs, vector_store, prompt,
                   run, log, error, raised>>

\* vector_store = Chroma.from_documents(documents=all_splits, embedding=...)
Store ==
    /\ pc = "split"
    /\ vector_store' = from_documents(all_splits)
    /\ pc' = "stored"
    /\ stage_log' = Append(stage_log, "store")
    /\ UNCHANGED <<chunk_size, chunk_overlap, k, docs, all_splits, prompt,
                   run, log, error, raised>>

\* prompt = hub.pull("rlm/rag-prompt")
PullPrompt ==
    /\ pc = "stored"
    /\ prompt = NoPrompt
    /\ prompt' = HubTemplate
    /\ UNCHANGED <<pc, chunk_size, chunk_overlap, k, docs, all_splits, vector_store,
                   run, log, error, raised, stage_log>>

\* the stages of the setup (load, split, store) completed so far
SetupStages == SelectSeq(stage_log, LAMBDA s : s \in {"load", "split", "store"})

\* mutant of RetrieverInvoke: the query is added to the collection as a document
RetrieverInvokeRemember ==
    /\ pc = "stored"
    /\ Len(log) < MaxCalls
    /\ \E q \in Queries :
          LET found == similarity_search(vector_store, q, k)
          IN /\ run' = [NoRun EXCEPT !.chain = "retriever", !.mode = "invoke",
                                     !.question = q, !.retrieved = found, !.done = TRUE]
             /\ log' = Append(log, [question |-> q, result |-> found])
             /\ vector_store' = Append(vector_store,
                                       [page_content |-> q,
                                        metadata |-> [source |-> "query", start_index |-> 0],
                                        embedding |-> Embed(q)])
    /\ stage_log' = Append(SetupStages, "retrieve")
    /\ UNCHANGED <<pc, chunk_size, chunk_overlap, k, docs, all_splits,
                   prompt, error, raised>>

\* mutant of RetrieverInvoke: the retriever cell runs before the store cell
RetrieverInvokeEarly ==
    /\ pc \in {"split", "stored"}
    /\ Len(log) < MaxCalls
    /\ \E q \in Queries :
          LET found == similarity_search(vector_store, q, k)
          IN /\ run' = [NoRun EXCEPT !.chain = "retriever", !.mode = "invoke",
                                     !.question = q, !.retrieved = found, !.done = TRUE]
             /\ log' = Append(log, [question |-> q, result |-> found])
    /\ stage_log' = Append(SetupStages, "retrieve")
    /\ UNCHANGED <<pc, chunk_size, chunk_overlap, k, docs, all_splits, vector_store,
                   prompt, error, raised>>

\* retrieved_docs = retriever.invoke(query)
RetrieverInvoke ==
    /\ pc = "stored"
    /\ Len(log) < MaxCalls
    /\ \E q \in Queries :
          LET found == similarity_search(vector_store, q, k)
          IN /\ run' = [NoRun EXCEPT !.chain = "retriever", !.mode = "invoke",
                                     !.question = q, !.retrieved = found, !.done = TRUE]
             /\ log' = Append(log, [question |-> q, result |-> found])
    /\ stage_log' = Append(SetupStages, "retrieve")
    /\ UNCHANGED <<pc, chunk_size, chunk_overlap, k, docs, all_splits, vector_store,
                   prompt, error, raised>>

\* mutant of ChainStart: every invocation inserts the chunks again
ChainStartReinsert ==
    /\ pc = "stored"
    /\ Len(log) < MaxCalls
    /\ \E chain \in {"rag", "custom"}, mode \in {"invoke", "stream"}, q \in Queries :
          LET found == similarity_search(vector_store, q, k)
          IN /\ chain = "rag" => prompt # NoPrompt
             /\ run' = [NoRun EXCEPT !.chain = chain, !.mode = mode, !.question = q,
                                     !.retrieved = found, !.context = format_docs(found)]
             /\ log' = Append(log, [question |-> q, result |-> found])
    /\ vector_store' = vector_store \o from_documents(all_splits)
    /\ pc' = "retrieved"
    /\ stage_log' = Append(SetupStages, "retrieve")
    /\ UNCHANGED <<chunk_size, chunk_overlap, k, docs, all_splits,
                   prompt, error, raised>>

\* rag_chain / custom_rag_chain .invoke(q) or .stream(q), first step:
\* {"context": retriever | format_docs, "question": RunnablePassthrough()}
ChainStart ==
    /\ pc = "stored"
    /\ Len(log) < MaxCalls
    /\ \E chain \in {"rag", "custom"}, mode \in {"invoke", "stream"}, q \in Queries :
          LET found == similarity_search(vector_store, q, k)
          IN /\ chain = "rag" => prompt # NoPrompt
             /\ run' = [NoRun EXCEPT !.chain = chain, !.mode = mode, !.question = q,
                                     !.retrieved = found, !.context = format_docs(found)]
             /\ log' = Append(log, [question |-> q, result |-> found])
    /\ pc' = "retrieved"
    /\ stage_log' = Append(SetupStages, "retrieve")
    /\ UNCHANGED <<chunk_size, chunk_overlap, k, docs, all_splits, vector_store,
                   prompt, error, raised>>

\* second step: | prompt  (or | custom_rag_prompt)
BuildPrompt ==
    /\ pc = "retrieved"
    /\ run' = [run EXCEPT !.prompt_text =
                              FormatPrompt(Template(run.chain), run.context, run.question)]
    /\ pc' = "prompted"
    /\ UNCHANGED <<chunk_size, chunk_overlap, k, docs, all_splits, vector_store,
                   prompt, log, error, raised, stage_log>>

\* third and fourth step: | llm | StrOutputParser().  invoke returns the parsed
\* message; stream starts delivering the parsed message chunks
ModelCall ==
    /\ pc = "prompted"
    /\ \E body \in Bodies, complies \in BOOLEAN :
          LET message == llm(run.prompt_text, body, complies)
          IN IF run.mode = "invoke"
             THEN /\ run' = [run EXCEPT !.complied = complies,
                                        !.content = message.content,
                                        !.answer = StrOutputParser(message),
                                        !.done = TRUE]
                  /\ pc' = "stored"
                  /\ stage_log' = Append(stage_log, "generate")
             ELSE /\ run' = [run EXCEPT !.complied = complies,
                                        !.content = message.content,
                                        !.pending = StreamChunks(message)]
                  /\ pc' = "streaming"
                  /\ stage_log' = stage_log
    /\ UNCHANGED <<chunk_size, chunk_overlap, k, docs, all_splits, vector_store,
                   prompt, log, error, raised>>

\* mutant of Deliver: the fragment that arrived last is handed over first
DeliverLast ==
    /\ pc = "streaming"
    /\ run.pending # << >>
    /\ LET last == run.pending[Len(run.pending)]
       IN run' = [run EXCEPT !.pending = SubSeq(run.pending, 1, Len(run.pending) - 1),
                             !.delivered = Append(run.delivered, StrOutputParser(last)),
                             !.answer = run.answer \o StrOutputParser(last)]
    /\ UNCHANGED <<pc, chunk_size, chunk_overlap, k, docs, all_splits, vector_store,
                   prompt, log, error, raised, stage_log>>

\* for chunk in rag_chain.stream(q): print(chunk, end="", flush=True)
Deliver ==
    /\ pc = "streaming"
    /\ run.pending # << >>
    /\ run' = [run EXCEPT !.pending = Tail(run.pending),
                          !.delivered = Append(run.delivered,
                                               StrOutputParser(Head(run.pending))),
                          !.answer = run.answer \o StrOutputParser(Head(run.pending))]
    /\ UNCHANGED <<pc, chunk_size, chunk_overlap, k, docs, all_splits, vector_store,
                   prompt, log, error, raised, stage_log>>

\* the stream is exhausted: the for loop ends
StreamEnd ==
    /\ pc = "streaming"
    /\ run.pending = << >>
    /\ run' = [run EXCEPT !.done = TRUE]
    /\ pc' = "stored"
    /\ stage_log' = Append(stage_log, "generate")
    /\ UNCHANGED <<chunk_size, chunk_overlap, k, docs, all_splits, vector_store,
                   prompt, log, error, raised>>

\* the collaborator calls the notebook can make next at each position: the
\* cell in turn, hub.pull while the prompt is not pulled, a retrieval while
\* invocations remain, the model call once the prompt is built
StagesAt(at) ==
    CASE at = "start" -> {"load"}
      [] at = "loaded" -> {"split"}
      [] at = "split" -> {"store"}
      [] at = "stored" -> (IF prompt = NoPrompt THEN {"prompt fetch"} ELSE {})
                          \cup (IF Len(log) < MaxCalls THEN {"retrieve"} ELSE {})
      [] at = "prompted" -> {"model call"}
      [] at = "streaming" -> {"model call"}
      [] OTHER -> {}

\* mutant of Propagate: the exception is swallowed and execution goes on
PropagateSwallow(stage, exc) ==
    UNCHANGED <<pc, chunk_size, chunk_overlap, k, docs, all_splits, vector_store,
                prompt, run, log, error, stage_log>>

\* an exception reaches the top level: no cell catches it, no chain step has a
\* retry or a fallback; execution stops
Propagate(stage, exc) ==
    /\ error' = [stage |-> stage, exc |-> exc]
    /\ pc' = "failed"
    /\ UNCHANGED <<chunk_size, chunk_overlap, k, docs, all_splits, vector_store,
                   prompt, run, log, stage_log>>

\* a collaborator call raises
Fail ==
    /\ \E stage \in StagesAt(pc), exc \in Exceptions :
          /\ raised' = [stage |-> stage, exc |-> exc]
          /\ Propagate(stage, exc)

Next ==
    \/ Load
    \/ Split
    \/ Store
    \/ PullPrompt
    \/ RetrieverInvoke
    \/ ChainStart
    \/ BuildPrompt
    \/ ModelCall
    \/ Deliver
    \/ StreamEnd
    \/ Fail

Spec == Init /\ [][Next]_vars

\* the splitter alone, on every document up to MaxDocLen characters
LoadAny == LoadFrom(TextsUpTo(MaxDocLen))

SplitInit == InitWith(Splitters) /\ k = 1

SplitNext == LoadAny \/ Split

SplitSpec == SplitInit /\ [][SplitNext]_vars

\* format_docs alone, on every list of up to MaxDocs documents with short
\* texts (the empty text and texts made of newlines among them)
FormatTexts == TextsUpTo(1) \cup {<<NL, NL>>}

FormatDocuments ==
    {[page_content |-> t, metadata |-> [source |-> Url, start_index |-> s]] :
        t \in FormatTexts, s \in 0..1}

RECURSIVE ListsUpTo(_, _)
ListsUpTo(elements, n) ==
    IF n = 0 THEN {<< >>}
    ELSE LET shorter == ListsUpTo(elements, n - 1)
         IN shorter \cup {Append(l, e) : l \in {x \in shorter : Len(x) = n - 1}, e \in elements}

FormatInit ==
    /\ InitWith({<<2, 1>>})
    /\ k = 1

\* format_docs(docs) called on a document list
FormatDocs ==
    /\ pc = "start"
    /\ run = NoRun
    /\ \E documents \in ListsUpTo(FormatDocuments, MaxDocs) :
          run' = [NoRun EXCEPT !.chain = "format_docs", !.retrieved = documents]
    /\ pc' = "retrieved"
    /\ UNCHANGED <<chunk_size, chunk_overlap, k, docs, all_splits, vector_store,
                   prompt, log, error, raised, stage_log>>

\* the call returns
FormatReturn ==
    /\ pc = "retrieved"
    /\ run.chain = "format_docs"
    /\ run' = [run EXCEPT !.context = format_docs(run.retrieved), !.done = TRUE]
    /\ pc' = "prompted"
    /\ UNCHANGED <<chunk_size, chunk_overlap, k, docs, all_splits, vector_store,
                   prompt, log, error, raised, stage_log>>

FormatNext == FormatDocs \/ FormatReturn

FormatSpec == FormatInit /\ [][FormatNext]_vars

\* ------------------------------------------------------------ splitter claims

NumChunks == Len(all_splits)
ChunkLen(i) == Len(all_splits[i].page_content)
ChunkStart(i) == all_splits[i].metadata.start_index
ChunkEnd(i) == ChunkStart(i) + ChunkLen(i)
\* characters chunk i shares with chunk i+1, by the recorded offsets
Overlap(i) == Max(0, ChunkEnd(i) - ChunkStart(i + 1))

\* C1: with chunk size C and overlap O, every non-final chunk is at most C
\* characters long, and every chunk after the first starts no more than O
\* characters before the end of the chunk before it.
C1_ChunkBounds ==
    pc = "split" =>
        /\ \A i \in 1..(NumChunks - 1) : ChunkLen(i) <= chunk_size
        /\ \A i \in 2..NumChunks : ChunkStart(i) >= ChunkEnd(i - 1) - chunk_overlap

\* three or more chunks, a non-final chunk of full size, and a chunk starting
\* exactly O > 0 characters before the previous chunk's end
C1_Witness ==
    /\ pc = "split"
    /\ NumChunks >= 3
    /\ chunk_overlap > 0
    /\ \E i \in 1..(NumChunks - 1) : ChunkLen(i) = chunk_size
    /\ \E i \in 2..NumChunks : ChunkStart(i) = ChunkEnd(i - 1) - chunk_overlap

QueryDistance(q, doc) == Distance(Embed(q), Embed(doc.page_content))
EntryDistance(q, j) == Distance(Embed(q), vector_store[j].embedding)

\* C3: a retrieval with result count k returns exactly min(k, collection size)
\* chunks, ordered by non-increasing similarity (non-decreasing distance) to
\* the query.
C3_CountAndOrder ==
    \A n \in 1..Len(log) :
        LET e == log[n]
        IN /\ Len(e.result) = Min(k, Len(vector_store))
           /\ \A i \in 1..(Len(e.result) - 1) :
                 QueryDistance(e.question, e.result[i])
                     <= QueryDistance(e.question, e.result[i + 1])

\* a retrieval that returned k >= 2 chunks out of more, the first strictly
\* nearer than the last
C3_Witness ==
    \E n \in 1..Len(log) :
        LET e == log[n]
        IN /\ k >= 2
           /\ Len(e.result) = k
           /\ k < Len(vector_store)
           /\ QueryDistance(e.question, e.result[1]) < QueryDistance(e.question, e.result[k])

Chains == {"rag", "custom"}
SlotCount(text) ==
    Cardinality({i \in 1..Len(text) : text[i] \in {ContextSlot, QuestionSlot}})

\* C6 as stated: every finished chain invocation returns a non-empty answer
\* with no "{context}" or "{question}" in it.
C6_NonEmptyNoPlaceholder ==
    (run.done /\ run.chain \in Chains) =>
        /\ run.answer # << >>
        /\ SlotCount(run.answer) = 0

\* C6 amended: the prompt sent to the model has both template slots filled
\* (placeholder text is in it only where the question or the retrieved text
\* itself contains it), and the answer returned is the model's reply, unchanged.
C6_AnswerIsReply ==
    (run.done /\ run.chain \in Chains) =>
        /\ run.answer = run.content
        /\ SlotCount(run.prompt_text) = SlotCount(run.context) + SlotCount(run.question)

\* a streamed invocation whose question contains placeholder text and whose
\* answer is non-empty and free of it
C6_Witness ==
    /\ run.done
    /\ run.chain = "rag"
    /\ run.mode = "stream"
    /\ SlotCount(run.question) = 1
    /\ run.context # << >>
    /\ run.answer # << >>
    /\ SlotCount(run.answer) = 0

\* C7: every answer of the chain built on the custom template ends with the
\* template's closing phrase, when the model complies with the instruction.
C7_ClosingPhrase ==
    (run.done /\ run.chain = "custom" /\ run.complied) =>
        /\ run.answer # << >>
        /\ run.answer[Len(run.answer)] = ClosingPhrase

\* a streamed custom-chain answer of two fragments, the second the phrase
C7_Witness ==
    /\ run.done
    /\ run.chain = "custom"
    /\ run.mode = "stream"
    /\ run.complied
    /\ Len(run.delivered) = 2
    /\ run.answer[2] = ClosingPhrase

\* ------------------------------------------------------------ pipeline claims

StageOrder == <<"load", "split", "store", "retrieve", "generate">>
IsPrefix(s, t) == Len(s) <= Len(t) /\ \A i \in 1..Len(s) : s[i] = t[i]

C9_FailurePropagates ==
    /\ [](raised # NoError => (error = raised /\ pc = "failed"))
    /\ [][raised = NoError]_vars

\* the model call failed with a network error after a fragment was delivered
C9_Witness ==
    /\ pc = "failed"
    /\ error = [stage |-> "model call", exc |-> "network"]
    /\ run.delivered # << >>
    /\ ~run.done

\* C10: after the store step no retrieval or chain invocation adds, removes or
\* changes an entry of the collection, and what a chain invocation retrieved
\* and sent to the model is determined by the collection, its own question and
\* its own template alone.
C10_StoreOnlySharedState ==
    /\ [][pc # "split" => vector_store' = vector_store]_vars
    /\ []((run.done /\ run.chain \in Chains) =>
            /\ run.retrieved = similarity_search(vector_store, run.question, k)
            /\ run.prompt_text = FormatPrompt(Template(run.chain),
                                              format_docs(run.retrieved), run.question))

\* three invocations served, the last a streamed custom-chain run, the
\* collection still one entry per chunk
C10_Witness ==
    /\ Len(log) = 3
    /\ run.done
    /\ run.chain = "custom"
    /\ run.mode = "stream"
    /\ Len(vector_store) = Len(all_splits)
    /\ Len(vector_store) >= 2

\* ------------------------------------------------------------ streaming claims

\* the fragments of a reply, in the order the model produces them
FragmentsOf(content) == [i \in 1..Len(content) |-> <<content[i]>>]
Contents(chunks) == [i \in 1..Len(chunks) |-> chunks[i].content]

\* C11: in a streamed invocation the fragments the caller has consumed are the
\* first fragments of the model's reply, in the model's order, consumed while
\* the rest of the reply is still to arrive (the invocation is not finished);
\* retrieval, context formatting and prompt construction were complete before
\* the first fragment was delivered.
C11_StreamOrder ==
    /\ pc = "streaming" =>
          /\ run.mode = "stream"
          /\ ~run.done
          /\ run.delivered \o Contents(run.pending) = FragmentsOf(run.content)
    /\ run.delivered # << >> =>
          /\ run.mode = "stream"
          /\ IsPrefix(run.delivered, FragmentsOf(run.content))
          /\ run.retrieved = similarity_search(vector_store, run.question, k)
          /\ run.context = format_docs(run.retrieved)
          /\ run.prompt_text = FormatPrompt(Template(run.chain), run.context, run.question)

\* the first of two fragments consumed, the second still to arrive
C11_Witness ==
    /\ pc = "streaming"
    /\ ~run.done
    /\ Len(run.delivered) = 1
    /\ Len(run.pending) = 1
    /\ run.delivered[1] # Contents(run.pending)[1]
    /\ run.prompt_text # << >>

\* C12: every chunk is the text of its document from the recorded start_index
\* to start_index + chunk length, and carries the document's metadata (its
\* source) unchanged.
C12_ChunkIsSubstring ==
    pc = "split" =>
        \A i \in 1..NumChunks :
            /\ ChunkStart(i) \in 0..Len(docs[1].page_content)
            /\ Slice(docs[1].page_content, ChunkStart(i), ChunkEnd(i))
                   = all_splits[i].page_content
            /\ all_splits[i].metadata.source = docs[1].metadata.source
            /\ DOMAIN all_splits[i].metadata = DOMAIN docs[1].metadata \cup {"start_index"}

\* three chunks or more, one overlapping the chunk before it, one whose text
\* also occurs earlier in the document than where it is recorded
C12_Witness ==
    /\ pc = "split"
    /\ NumChunks >= 3
    /\ \E i \in 2..NumChunks : ChunkStart(i) < ChunkEnd(i - 1)
    /\ \E i \in 2..NumChunks :
          /\ ChunkStart(i) > 0
          /\ Find(docs[1].page_content, all_splits[i].page_content, 0) < ChunkStart(i)

\* ------------------------------------------------------------- prompt claims

SlotAt(template, slot) == CHOOSE i \in 1..Len(template) : template[i] = slot

\* the template's text with the context slot replaced by context and the
\* question slot by question, everything else in place
Filled(template, context, question) ==
    LET ci == SlotAt(template, ContextSlot)
        qi == SlotAt(template, QuestionSlot)
        first == Min(ci, qi)
        second == Max(ci, qi)
        value(i) == IF i = ci THEN context ELSE question
    IN SubSeq(template, 1, first - 1) \o value(first)
       \o SubSeq(template, first + 1, second - 1) \o value(second)
       \o SubSeq(template, second + 1, Len(template))

\* the question the caller supplied to the invocation in progress
Supplied == log[Len(log)].question

\* C13: the prompt a chain invocation sends to the model is its template with
\* the question slot holding the supplied question as it is, the context slot
\* holding format_docs of the chunks retrieved for that question, and all
\* other template text unchanged.
C13_PromptIsFilledTemplate ==
    (run.chain \in Chains /\ run.prompt_text # << >>) =>
        run.prompt_text =
            Filled(Template(run.chain),
                   format_docs(similarity_search(vector_store, Supplied, k)),
                   Supplied)

\* a custom-chain prompt built from two retrieved chunks for a question that
\* itself contains placeholder text, after an invocation with another question
C13_Witness ==
    /\ pc = "prompted"
    /\ run.chain = "custom"
    /\ Len(run.retrieved) = 2
    /\ SlotCount(run.question) = 1
    /\ Len(log) >= 2
    /\ log[Len(log) - 1].question # run.question

\* --------------------------------------------------------------- store claims

StoreDone == \E i \in 1..Len(stage_log) : stage_log[i] = "store"

\* C14: once the store step has completed, the collection has exactly one
\* entry per chunk of the chunk sequence (equal chunks each have their own),
\* and each entry holds its chunk's text and metadata together with the
\* embedding of that text.
C14_OneEntryPerChunk ==
    StoreDone =>
        /\ Len(vector_store) = Len(all_splits)
        /\ \A i \in 1..Len(vector_store) :
              /\ vector_store[i].page_content = all_splits[i].page_content
              /\ vector_store[i].metadata = all_splits[i].metadata
              /\ vector_store[i].embedding = Embed(all_splits[i].page_content)
              /\ DOMAIN vector_store[i] = {"page_content", "metadata", "embedding"}

\* a collection of three entries or more, two of them for chunks of equal
\* text at different offsets, two of them with different embeddings
C14_Witness ==
    /\ pc = "stored"
    /\ Len(vector_store) >= 3
    /\ \E i, j \in 1..Len(vector_store) :
          /\ i # j
          /\ vector_store[i].page_content = vector_store[j].page_content
          /\ vector_store[i].metadata # vector_store[j].metadata
    /\ \E i, j \in 1..Len(vector_store) :
          vector_store[i].embedding # vector_store[j].embedding

\* ---------------------------------------------------------- format_docs claims

\* where document i's text starts in the "\n\n"-joined text of documents
RECURSIVE DocOffset(_, _)
DocOffset(documents, i) ==
    IF i = 1 THEN 0
    ELSE DocOffset(documents, i - 1) + Len(documents[i - 1].page_content) + 2

\* C15: format_docs returns the documents' page_content in the given order,
\* consecutive ones separated by exactly "\n\n", nothing before the first or
\* after the last, nothing taken from the metadata; the empty string for no
\* documents; the documents themselves are left as they were.
C15_FormatDocs ==
    /\ []((run.done /\ run.chain = "format_docs") =>
            LET d == run.retrieved
                n == Len(d)
                out == run.context
            IN /\ n = 0 => out = << >>
               /\ n > 0 => Len(out) = DocOffset(d, n) + Len(d[n].page_content)
               /\ \A i \in 1..n :
                     Slice(out, DocOffset(d, i), DocOffset(d, i) + Len(d[i].page_content))
                         = d[i].page_content
               /\ \A i \in 1..(n - 1) :
                     LET end == DocOffset(d, i) + Len(d[i].page_content)
                     IN Slice(out, end, end + 2) = <<NL, NL>>)
    /\ [][run.chain = "format_docs" => run'.retrieved = run.retrieved]_vars

\* three documents formatted, the middle one's text itself a blank line, the
\* metadata not all the same
C15_Witness ==
    /\ run.done
    /\ run.chain = "format_docs"
    /\ Len(run.retrieved) = 3
    /\ run.retrieved[1].page_content = <<"a">>
    /\ run.retrieved[2].page_content = <<NL, NL>>
    /\ run.retrieved[3].page_content = <<"b">>
    /\ run.retrieved[1].metadata # run.retrieved[3].metadata
    /\ run.context = <<"a", NL, NL, NL, NL, NL, NL, "b">>

\* ------------------------------------------------------- stream / invoke claims

\* what chain.invoke returns for a prompt and a model response
InvokeResult(prompt_text, body, complies) ==
    StrOutputParser(llm(prompt_text, body, complies))

\* the model responses that give the reply of the current invocation
Responses ==
    {body \in Bodies : llm(run.prompt_text, body, run.complied).content = run.content}

====
